---- MODULE Spec2Model ----
(***************************************************************************)
(* State-machine model of the Cuts DJ back-office API: the SQLite data     *)
(* layer (src/src/db.js) and the Express routes with their token and role  *)
(* guards (src/server.js).                                                 *)
(*                                                                         *)
(* A request is handled in two steps, as in the code: the synchronous      *)
(* middleware chain (requireAuth, requireRole, body validation) runs when  *)
(* the request is received, and the db function the handler awaits runs    *)
(* later, after `await initDb()` has yielded to the event loop.  The body  *)
(* of every db function is synchronous (better-sqlite3), so it is one      *)
(* atomic step; other requests interleave between the two steps.           *)
(***************************************************************************)
EXTENDS Integers, Sequences, FiniteSets, TLC

VARIABLES
  users,          \* rows of table users
  classes,        \* rows of table classes
  announcements,  \* rows of table announcements
  enrollments,    \* rows of table enrollments
  attendance,     \* rows of table attendance
  payments,       \* rows of table payments
  seq,            \* AUTOINCREMENT counters (sqlite_sequence), one per table
  tokens,         \* tokens the server has issued (held by clients; no server store)
  now,            \* the clock, in days
  inflight,       \* per connection: the request whose db call is pending, or Idle
  last            \* the last completed exchange: request, time and response

vars == <<users, classes, announcements, enrollments, attendance, payments,
          seq, tokens, now, inflight, last>>

tables == <<users, classes, announcements, enrollments, attendance, payments, seq>>

----------------------------------------------------------------------------
(* Bounds of the model *)

\* rows ever inserted into users (caps users.id)
MaxUsers == 2
\* rows ever inserted into classes
MaxClasses == 1
\* rows ever inserted into payments
MaxPayments == 1
\* rows ever inserted into announcements
MaxAnnouncements == 1
\* tokens the server issues in one behaviour
MaxTokens == 4
\* requests whose db call is pending at the same time
MaxInflight == 2
\* last day of the clock
MaxTime == 8

(* Program constants *)

\* expiresIn: '7d', in days of the clock
TokenTTL == 7

JWT_SECRET == "JWT_SECRET"

Roles == {"student", "teacher", "admin"}
AttendanceStatuses == {"present", "absent", "late", "excused"}
PaymentStatuses == {"pending", "paid", "failed", "refunded"}
AudienceRoles == Roles \cup {"all"}

----------------------------------------------------------------------------
(* JavaScript strings that are trimmed, lowercased or matched are sequences *)
(* of one-character strings; null stands for null / undefined.              *)

null == <<"null">>

S_a      == <<"a">>
S_a_pad  == <<" ", "a", " ">>
S_A      == <<"A">>
S_b      == <<"b">>
S_blank  == <<" ">>
S_mail   == <<"a", "@", "b", ".", "c">>
S_Mail   == <<"A", "@", "b", ".", "c">>
S_mail2  == <<"b", "@", "b", ".", "c">>
S_nomail == <<"a", "@", "b">>

Truthy(s) == s # null /\ s # <<>>

IsSpace(c) == c = " "

RECURSIVE TrimLeft(_)
TrimLeft(s) == IF s # <<>> /\ IsSpace(Head(s)) THEN TrimLeft(Tail(s)) ELSE s

RECURSIVE TrimRight(_)
TrimRight(s) ==
  IF s # <<>> /\ IsSpace(s[Len(s)]) THEN TrimRight(SubSeq(s, 1, Len(s) - 1)) ELSE s

Trim(s) == TrimRight(TrimLeft(s))

LowerOf(c) == CASE c = "A" -> "a" [] c = "B" -> "b" [] c = "C" -> "c" [] OTHER -> c

toLowerCase(s) == [i \in 1..Len(s) |-> LowerOf(s[i])]

\* String(s || '').trim()
normalizeIdentifier(s) == IF Truthy(s) THEN Trim(s) ELSE <<>>

\* /^[^\s@]+@[^\s@]+\.[^\s@]+$/ on the trimmed string: one '@' that is not first,
\* no white space, and a '.' after the '@' with a character on both sides.
isEmail(s) ==
  LET t == normalizeIdentifier(s) IN
  \E i \in 2..Len(t) :
    /\ t[i] = "@"
    /\ \A k \in 1..Len(t) : k # i => (~IsSpace(t[k]) /\ t[k] # "@")
    /\ \E j \in (i + 2)..(Len(t) - 1) : t[j] = "."

----------------------------------------------------------------------------
(* Credentials: bcrypt with a random salt *)

\* bcrypt.hash(plain, salt): the digest embeds its salt
hashPassword(plain, salt) == <<"$2b$", salt, plain>>

comparePassword(plain, hash) == Len(hash) = 3 /\ hash[1] = "$2b$" /\ hash[3] = plain

----------------------------------------------------------------------------
(* Rows and projections *)

NoTime == -1
NoId == 0

\* SELECT * FROM users: the projection that keeps every column
PublicUser_SelectAll(row) == row

\* SELECT id, username, email, fullName, role, createdAt, lastLoginAt
PublicUser(row) ==
  [id |-> row.id, username |-> row.username, email |-> row.email,
   role |-> row.role, lastLoginAt |-> row.lastLoginAt]

UserIds == {u.id : u \in users}
ClassIds == {c.id : c \in classes}

UserById(id) == CHOOSE u \in users : u.id = id

\* a thrown Error / an engine error: the message is what callers read
Err(msg) == [ok |-> FALSE, error |-> msg]

E_UNIQUE_USERNAME == "UNIQUE constraint failed: users.username"
E_UNIQUE_EMAIL    == "UNIQUE constraint failed: users.email"
E_UNIQUE_ENROLL   == "UNIQUE constraint failed: enrollments.classId, enrollments.studentId"
E_UNIQUE_ATTEND   == "UNIQUE constraint failed: attendance.classId, attendance.studentId, attendance.date"
E_CHECK_ROLE      == "CHECK constraint failed: role IN ('student','teacher','admin')"
E_CHECK_STATUS    == "CHECK constraint failed: status IN (...)"
E_CHECK_AUDIENCE  == "CHECK constraint failed: audienceRole IN (...)"
E_FOREIGN_KEY     == "FOREIGN KEY constraint failed"
E_NOT_A_FUNCTION  == "db.listAllPayments is not a function"

\* err.code === 'SQLITE_CONSTRAINT_UNIQUE' || message.includes('UNIQUE')
IsUniqueError(msg) ==
  msg \in {E_UNIQUE_USERNAME, E_UNIQUE_EMAIL, E_UNIQUE_ENROLL, E_UNIQUE_ATTEND}

----------------------------------------------------------------------------
(* The storage engine: one INSERT / UPDATE / DELETE statement each.  A       *)
(* statement either applies in full or fails with the engine's message and   *)
(* changes nothing (the AUTOINCREMENT counter included).                     *)

\* INSERT INTO users: CHECK (role IN ...), then UNIQUE(username), UNIQUE(email)
InsertUser(row) ==
  IF row.role \notin Roles THEN Err(E_CHECK_ROLE)
  ELSE IF \E x \in users : x.username = row.username THEN Err(E_UNIQUE_USERNAME)
  ELSE IF row.email # null /\ \E x \in users : x.email = row.email THEN Err(E_UNIQUE_EMAIL)
  ELSE [ok |-> TRUE, users |-> users \cup {row}, seq |-> [seq EXCEPT !.users = row.id]]

\* UPDATE users SET ... WHERE id = ?
UpdateUserRow(id, new) ==
  IF id \notin UserIds THEN [ok |-> TRUE, changes |-> 0, users |-> users]
  ELSE IF new.role \notin Roles THEN Err(E_CHECK_ROLE)
  ELSE IF \E x \in users : x.id # id /\ x.username = new.username THEN Err(E_UNIQUE_USERNAME)
  ELSE IF new.email # null /\ \E x \in users : x.id # id /\ x.email = new.email
    THEN Err(E_UNIQUE_EMAIL)
  ELSE [ok |-> TRUE, changes |-> 1, users |-> (users \ {UserById(id)}) \cup {new}]

\* FOREIGN KEY (studentId) REFERENCES users(id) ON DELETE CASCADE
CascadeStudent(rows, id) == {r \in rows : r.studentId # id}

\* FOREIGN KEY (teacherId) REFERENCES users(id) ON DELETE SET NULL
SetNullTeacher(rows, id) ==
  {IF c.teacherId = id THEN [c EXCEPT !.teacherId = NoId] ELSE c : c \in rows}

----------------------------------------------------------------------------
(* db.js: users.  Each function is an operator from the current tables to   *)
(* its outcome: the value it resolves to or the Error it rejects with,     *)
(* and the tables it leaves.                                                *)

getUserById(id) ==
  IF id \in UserIds THEN [found |-> TRUE, user |-> PublicUser(UserById(id))]
  ELSE [found |-> FALSE]

findUserByEmail(email) ==
  LET e == toLowerCase(normalizeIdentifier(email)) IN
  IF e # <<>> /\ \E x \in users : x.email = e
    THEN [found |-> TRUE, user |-> PublicUser(CHOOSE x \in users : x.email = e)]
    ELSE [found |-> FALSE]

findUserByUsername(username) ==
  LET u == normalizeIdentifier(username) IN
  IF u # <<>> /\ \E x \in users : x.username = u
    THEN [found |-> TRUE, user |-> PublicUser(CHOOSE x \in users : x.username = u)]
    ELSE [found |-> FALSE]

\* the one lookup that selects passwordHash
getUserAuthByIdentifier(identifier) ==
  LET id == normalizeIdentifier(identifier) IN
  IF id = <<>> THEN [found |-> FALSE]
  ELSE IF isEmail(id)
    THEN IF \E x \in users : x.email = toLowerCase(id)
           THEN [found |-> TRUE, row |-> CHOOSE x \in users : x.email = toLowerCase(id)]
           ELSE [found |-> FALSE]
    ELSE IF \E x \in users : x.username = id
           THEN [found |-> TRUE, row |-> CHOOSE x \in users : x.username = id]
           ELSE [found |-> FALSE]

createUser(username, email, role, password, salt) ==
  LET u == normalizeIdentifier(username)
      e == IF Truthy(email) THEN toLowerCase(normalizeIdentifier(email)) ELSE null
      row == [id |-> seq.users + 1, username |-> u, email |-> e, role |-> role,
              passwordHash |-> hashPassword(password, salt), lastLoginAt |-> NoTime]
      ins == InsertUser(row)
  IN  IF u = <<>> THEN Err("username is required")
      ELSE IF Truthy(e) /\ ~isEmail(e) THEN Err("email is invalid")
      ELSE IF role = "" THEN Err("role is required")
      ELSE IF password = "" THEN Err("password is required")
      ELSE IF ins.ok
        THEN [ok |-> TRUE, user |-> PublicUser(row), users |-> ins.users, seq |-> ins.seq]
      ELSE IF IsUniqueError(ins.error)
        THEN Err("User with this username or email already exists")
      ELSE ins

authenticateUser(identifier, password) ==
  LET r == getUserAuthByIdentifier(identifier) IN
  IF ~Truthy(identifier) \/ password = "" THEN Err("identifier and password are required")
  ELSE IF ~r.found THEN [ok |-> TRUE, found |-> FALSE, users |-> users]
  ELSE IF ~comparePassword(password, r.row.passwordHash)
    THEN [ok |-> TRUE, found |-> FALSE, users |-> users]
  ELSE [ok |-> TRUE, found |-> TRUE,
        user |-> [id |-> r.row.id, username |-> r.row.username, email |-> r.row.email,
                  role |-> r.row.role, lastLoginAt |-> now],
        users |-> (users \ {r.row}) \cup {[r.row EXCEPT !.lastLoginAt = now]}]

\* a field left out of `updates`
undefined == <<"undefined">>

NoUpdates == [username |-> undefined, email |-> undefined, role |-> "", password |-> ""]

updateUser(id, updates, salt) ==
  LET setUsername == updates.username # undefined /\ Truthy(updates.username)
      setEmail == updates.email # undefined
      e == IF Truthy(updates.email) THEN toLowerCase(normalizeIdentifier(updates.email))
           ELSE null
      setRole == updates.role # ""
      setPassword == updates.password # ""
      old == UserById(id)
      new == [id |-> id,
              username |-> IF setUsername THEN normalizeIdentifier(updates.username)
                           ELSE old.username,
              email |-> IF setEmail THEN e ELSE old.email,
              role |-> IF setRole THEN updates.role ELSE old.role,
              passwordHash |-> IF setPassword THEN hashPassword(updates.password, salt)
                               ELSE old.passwordHash,
              lastLoginAt |-> old.lastLoginAt]
      upd == UpdateUserRow(id, new)
  IN  IF id = NoId THEN Err("User id is required")
      ELSE IF setEmail /\ Truthy(e) /\ ~isEmail(e) THEN Err("email is invalid")
      ELSE IF ~(setUsername \/ setEmail \/ setRole \/ setPassword)
        THEN [ok |-> TRUE, changed |-> FALSE, users |-> users]
      ELSE IF id \notin UserIds THEN [ok |-> TRUE, changed |-> FALSE, users |-> users]
      ELSE IF upd.ok THEN [ok |-> TRUE, changed |-> upd.changes > 0, users |-> upd.users]
      ELSE IF IsUniqueError(upd.error)
        THEN Err("Update would violate unique constraints (username/email)")
      ELSE upd

\* the DELETE with the foreign_keys pragma left off: dependent rows stay
deleteUser_NoCascade(id) ==
  [changed |-> id \in UserIds, users |-> {u \in users : u.id # id}, classes |-> classes,
   enrollments |-> enrollments, attendance |-> attendance, payments |-> payments]

\* DELETE FROM users WHERE id = ?, with foreign_keys = ON
deleteUser(id) ==
  IF id \notin UserIds
    THEN [changed |-> FALSE, users |-> users, classes |-> classes,
          enrollments |-> enrollments, attendance |-> attendance, payments |-> payments]
    ELSE [changed |-> TRUE,
          users |-> users \ {UserById(id)},
          classes |-> SetNullTeacher(classes, id),
          enrollments |-> CascadeStudent(enrollments, id),
          attendance |-> CascadeStudent(attendance, id),
          payments |-> CascadeStudent(payments, id)]

----------------------------------------------------------------------------
(* db.js: classes, announcements, enrollments, attendance, payments *)

\* FOREIGN KEY (teacherId) REFERENCES users(id); NULL references nothing
createClass(title, teacherId) ==
  LET row == [id |-> seq.classes + 1, title |-> title, teacherId |-> teacherId] IN
  IF teacherId # NoId /\ teacherId \notin UserIds THEN Err(E_FOREIGN_KEY)
  ELSE [ok |-> TRUE, row |-> row, classes |-> classes \cup {row},
        seq |-> [seq EXCEPT !.classes = row.id]]

createAnnouncement(title, audienceRole) ==
  LET row == [id |-> seq.announcements + 1, title |-> title, audienceRole |-> audienceRole] IN
  IF audienceRole \notin AudienceRoles THEN Err(E_CHECK_AUDIENCE)
  ELSE [ok |-> TRUE, row |-> row, announcements |-> announcements \cup {row},
        seq |-> [seq EXCEPT !.announcements = row.id]]

\* the INSERT of a table declared without UNIQUE(classId, studentId)
InsertEnrollment_NoUnique(row) ==
  IF row.classId \notin ClassIds \/ row.studentId \notin UserIds THEN Err(E_FOREIGN_KEY)
  ELSE [ok |-> TRUE, enrollments |-> enrollments \cup {row},
        seq |-> [seq EXCEPT !.enrollments = row.id]]

\* INSERT INTO enrollments: UNIQUE(classId, studentId), then the foreign keys
InsertEnrollment(row) ==
  IF \E e \in enrollments : e.classId = row.classId /\ e.studentId = row.studentId
    THEN Err(E_UNIQUE_ENROLL)
  ELSE IF row.classId \notin ClassIds \/ row.studentId \notin UserIds THEN Err(E_FOREIGN_KEY)
  ELSE [ok |-> TRUE, enrollments |-> enrollments \cup {row},
        seq |-> [seq EXCEPT !.enrollments = row.id]]

enroll(classId, studentId) ==
  LET row == [id |-> seq.enrollments + 1, classId |-> classId, studentId |-> studentId]
      ins == InsertEnrollment(row)
  IN  IF ins.ok
        THEN [ok |-> TRUE, row |-> row, enrollments |-> ins.enrollments, seq |-> ins.seq]
      ELSE IF IsUniqueError(ins.error) THEN Err("Already enrolled")
      ELSE ins

\* INSERT INTO attendance: CHECK (status IN ...), UNIQUE(classId, studentId, date),
\* then the foreign keys
InsertAttendance(row) ==
  IF row.status \notin AttendanceStatuses THEN Err(E_CHECK_STATUS)
  ELSE IF \E a \in attendance :
            a.classId = row.classId /\ a.studentId = row.studentId /\ a.date = row.date
    THEN Err(E_UNIQUE_ATTEND)
  ELSE IF row.classId \notin ClassIds \/ row.studentId \notin UserIds THEN Err(E_FOREIGN_KEY)
  ELSE [ok |-> TRUE, attendance |-> attendance \cup {row},
        seq |-> [seq EXCEPT !.attendance = row.id]]

\* date || new Date().toISOString().slice(0, 10): calendar dates are days of the clock
IsoDate(date) == IF date = NoTime THEN now ELSE date

\* a mark that inserts a fresh row where it should update the existing one
markAttendance_InsertAgain(classId, studentId, status, date) ==
  LET row == [id |-> seq.attendance + 1, classId |-> classId, studentId |-> studentId,
              date |-> IsoDate(date), status |-> status]
  IN  IF status \notin AttendanceStatuses THEN Err(E_CHECK_STATUS)
      ELSE IF classId \notin ClassIds \/ studentId \notin UserIds THEN Err(E_FOREIGN_KEY)
      ELSE [ok |-> TRUE, row |-> row, attendance |-> attendance \cup {row},
            seq |-> [seq EXCEPT !.attendance = row.id]]

markAttendance(classId, studentId, status, date) ==
  LET isoDate == IsoDate(date)
      found == {a \in attendance :
                  a.classId = classId /\ a.studentId = studentId /\ a.date = isoDate}
      existing == CHOOSE a \in found : TRUE
      updated == [existing EXCEPT !.status = status]
      row == [id |-> seq.attendance + 1, classId |-> classId, studentId |-> studentId,
              date |-> isoDate, status |-> status]
      ins == InsertAttendance(row)
  IN  IF found # {}
        THEN IF status \notin AttendanceStatuses THEN Err(E_CHECK_STATUS)
             ELSE [ok |-> TRUE, row |-> updated,
                   attendance |-> (attendance \ {existing}) \cup {updated}, seq |-> seq]
      ELSE IF ins.ok
        THEN [ok |-> TRUE, row |-> row, attendance |-> ins.attendance, seq |-> ins.seq]
      ELSE ins

\* status = 'pending' when the caller leaves it out
createPayment(studentId, amountCents, status) ==
  LET row == [id |-> seq.payments + 1, studentId |-> studentId, amountCents |-> amountCents,
              status |-> IF status = "" THEN "pending" ELSE status]
  IN  IF row.status \notin PaymentStatuses THEN Err(E_CHECK_STATUS)
      ELSE IF studentId \notin UserIds THEN Err(E_FOREIGN_KEY)
      ELSE [ok |-> TRUE, row |-> row, payments |-> payments \cup {row},
            seq |-> [seq EXCEPT !.payments = row.id]]

listClasses == classes

\* WHERE audienceRole = 'all' OR audienceRole = ?
listAnnouncements(role) == {a \in announcements : a.audienceRole = "all" \/ a.audienceRole = role}

\* JOIN classes c ON c.id = e.classId WHERE e.studentId = ?
listEnrollmentsForStudent(studentId) ==
  {e \in enrollments : e.studentId = studentId /\ e.classId \in ClassIds}

listAttendanceForStudent(studentId) ==
  {a \in attendance : a.studentId = studentId /\ a.classId \in ClassIds}

listPaymentsForStudent(studentId) == {p \in payments : p.studentId = studentId}

\* what module.exports of db.js holds: listAllPayments is not among them
DbExports ==
  {"initDb", "hashPassword", "comparePassword", "createUser", "authenticateUser",
   "getUserById", "findUserByEmail", "findUserByUsername", "updateUser", "deleteUser",
   "listClasses", "createClass", "listAnnouncements", "createAnnouncement", "enroll",
   "listEnrollmentsForStudent", "markAttendance", "listAttendanceForStudent",
   "listPaymentsForStudent", "createPayment", "closeDb"}

----------------------------------------------------------------------------
(* server.js: tokens and the guards *)

NoClaims == [userId |-> NoId, role |-> "", username |-> null, iat |-> 0, exp |-> 0]

\* the token of a header that is exactly 'Bearer '
NoToken == [kind |-> "empty", sig |-> "", payload |-> NoClaims]

NoHeader == [scheme |-> "", token |-> NoToken]

Bearer(token) == [scheme |-> "Bearer", token |-> token]

\* jwt.sign({ userId, role, username }, JWT_SECRET, { expiresIn: '7d' })
signToken(user) ==
  [kind |-> "jwt", sig |-> JWT_SECRET,
   payload |-> [userId |-> user.id, role |-> user.role, username |-> user.username,
                iat |-> now, exp |-> now + TokenTTL]]

\* jwt.verify(token, JWT_SECRET, { ignoreExpiration: true })
jwtVerify_IgnoreExpiration(token, t) ==
  IF token.kind = "jwt" /\ token.sig = JWT_SECRET
    THEN [ok |-> TRUE, claims |-> token.payload]
    ELSE [ok |-> FALSE, claims |-> NoClaims]

\* jwt.verify(token, JWT_SECRET) at time t: throws on a malformed token, on a
\* signature made with another key, and once t has reached exp
jwtVerify(token, t) ==
  IF token.kind = "jwt" /\ token.sig = JWT_SECRET /\ t < token.payload.exp
    THEN [ok |-> TRUE, claims |-> token.payload]
    ELSE [ok |-> FALSE, claims |-> NoClaims]

Next200(user) == [status |-> 200, error |-> "", user |-> user]
Refuse(status, error) == [status |-> status, error |-> error, user |-> NoClaims]

\* a guard that verifies the token and then reads the role from the users table,
\* refusing the token of a user who no longer exists
requireAuth_StoredRole(header) ==
  LET token == IF header.scheme = "Bearer" THEN header.token ELSE NoToken
      v == jwtVerify(token, now)
  IN  IF token.kind = "empty" THEN Refuse(401, "Missing token")
      ELSE IF v.ok /\ v.claims.userId \in UserIds
        THEN Next200([v.claims EXCEPT !.role = UserById(v.claims.userId).role])
      ELSE Refuse(401, "Invalid token")

\* a guard that decodes the bearer token without verifying it (jwt.decode)
requireAuth_DecodeOnly(header) ==
  LET token == IF header.scheme = "Bearer" THEN header.token ELSE NoToken IN
  IF token.kind = "empty" THEN Refuse(401, "Missing token")
  ELSE IF token.kind = "jwt" THEN Next200(token.payload)
  ELSE Refuse(401, "Invalid token")

requireAuth(header) ==
  LET token == IF header.scheme = "Bearer" THEN header.token ELSE NoToken
      v == jwtVerify(token, now)
  IN  IF token.kind = "empty" THEN Refuse(401, "Missing token")
      ELSE IF v.ok THEN Next200(v.claims)
      ELSE Refuse(401, "Invalid token")

\* a role guard that lets every authenticated caller pass
requireRole_AnyAuthenticated(roles, user) == Next200(user)

requireRole(roles, user) ==
  IF user.role = "" \/ user.role \notin roles THEN Refuse(403, "Forbidden")
  ELSE Next200(user)

\* the routes of server.js: whether requireAuth guards it, and the roles of its
\* requireRole (AnyRole: the route has no requireRole)
AnyRole == {"*"}

RouteTable ==
  [route \in {"GET /", "POST /auth/register", "POST /auth/login"} |->
     [auth |-> FALSE, roles |-> AnyRole]] @@
  [route \in {"GET /auth/me", "GET /classes", "GET /announcements"} |->
     [auth |-> TRUE, roles |-> AnyRole]] @@
  [route \in {"POST /classes", "POST /attendance"} |->
     [auth |-> TRUE, roles |-> {"teacher", "admin"}]] @@
  [route \in {"POST /announcements", "POST /payments", "GET /payments"} |->
     [auth |-> TRUE, roles |-> {"admin"}]] @@
  [route \in {"POST /enroll", "GET /my-enrollments", "GET /my-attendance", "GET /my-payments"} |->
     [auth |-> TRUE, roles |-> {"student"}]]

Routes == DOMAIN RouteTable

\* the middleware chain in front of a route's handler
Guard(route, header) ==
  LET a == requireAuth(header) IN
  IF ~RouteTable[route].auth THEN Next200(NoClaims)
  ELSE IF a.status # 200 THEN a
  ELSE IF RouteTable[route].roles = AnyRole THEN a
  ELSE requireRole(RouteTable[route].roles, a.user)

\* the first lines of each handler: the 400 for a missing field ("" when none)
Validate(route, body) ==
  CASE route = "POST /auth/register" ->
         IF ~Truthy(body.username) \/ body.password = "" \/ body.role = ""
           THEN "username, password, and role are required" ELSE ""
    [] route = "POST /auth/login" ->
         IF ~Truthy(body.identifier) \/ body.password = ""
           THEN "identifier and password are required" ELSE ""
    [] route = "POST /classes" -> IF body.title = "" THEN "title is required" ELSE ""
    [] route = "POST /announcements" ->
         IF body.title = "" \/ body.body = "" THEN "title and body are required" ELSE ""
    [] route = "POST /enroll" -> IF body.classId = 0 THEN "classId is required" ELSE ""
    [] route = "POST /attendance" ->
         IF body.classId = 0 \/ body.studentId = 0 \/ body.status = ""
           THEN "classId, studentId, status required" ELSE ""
    [] route = "POST /payments" ->
         IF body.studentId = 0 \/ body.amountCents = 0
           THEN "studentId and amountCents are required" ELSE ""
    [] OTHER -> ""

----------------------------------------------------------------------------
(* The state machine *)

Slots == 1..MaxInflight

Idle == [route |-> ""]

NoBody == [none |-> TRUE]

NoRequest == [route |-> "", header |-> NoHeader, body |-> NoBody]

\* a completed exchange: the request, req.user as requireAuth set it, the day the
\* guards ran (NoTime for a call that passes none), and the response (status 0:
\* none was sent)
Exchange(req, user, recv, status, body) ==
  [req |-> req, user |-> user, recv |-> recv, status |-> status, body |-> body]

Init ==
  /\ users = {}
  /\ classes = {}
  /\ announcements = {}
  /\ enrollments = {}
  /\ attendance = {}
  /\ payments = {}
  /\ seq = [users |-> 0, classes |-> 0, announcements |-> 0, enrollments |-> 0,
            attendance |-> 0, payments |-> 0]
  /\ tokens = {}
  /\ now = 0
  /\ inflight = [s \in Slots |-> Idle]
  /\ last = Exchange(NoRequest, NoClaims, NoTime, 0, NoBody)

Pending(routes) == Cardinality({s \in Slots : inflight[s].route \in routes})

\* the caps on what one behaviour may insert or issue
WithinBounds(route) ==
  CASE route \in {"POST /auth/register"} ->
         /\ seq.users + Pending({"POST /auth/register"}) < MaxUsers
         /\ Cardinality(tokens) + Pending({"POST /auth/register", "POST /auth/login"}) < MaxTokens
    [] route = "POST /auth/login" ->
         Cardinality(tokens) + Pending({"POST /auth/register", "POST /auth/login"}) < MaxTokens
    [] route = "POST /classes" -> seq.classes + Pending({route}) < MaxClasses
    [] route = "POST /announcements" -> seq.announcements + Pending({route}) < MaxAnnouncements
    [] route = "POST /payments" -> seq.payments + Pending({route}) < MaxPayments
    [] OTHER -> TRUE

\* A request arrives on an idle connection: the guards and the handler's check of
\* the body answer at once, or the handler's db call is left pending.
Receive(s, req) ==
  /\ inflight[s] = Idle
  /\ req.route # "GET /"
  /\ WithinBounds(req.route)
  /\ LET g == Guard(req.route, req.header)
         v == Validate(req.route, req.body)
     IN  IF g.status # 200
           THEN /\ last' = Exchange(req, g.user, now, g.status, [error |-> g.error])
                /\ UNCHANGED inflight
         ELSE IF v # ""
           THEN /\ last' = Exchange(req, g.user, now, 400, [error |-> v])
                /\ UNCHANGED inflight
         ELSE /\ inflight' = [inflight EXCEPT ![s] =
                                [route |-> req.route, req |-> req, user |-> g.user,
                                 recv |-> now]]
              /\ UNCHANGED last
  /\ UNCHANGED <<tables, tokens, now>>

\* GET /: answered before any middleware that touches the database
Health(s) ==
  /\ inflight[s] = Idle
  /\ last' = Exchange([NoRequest EXCEPT !.route = "GET /"], NoClaims, NoTime, 200,
                      [text |-> "Cuts DJ Backend running"])
  /\ UNCHANGED <<tables, tokens, now, inflight>>

\* res.json / res.status(...).json on the connection of slot s
Reply(s, status, body) ==
  /\ last' = Exchange(inflight[s].req, inflight[s].user, inflight[s].recv, status, body)
  /\ inflight' = [inflight EXCEPT ![s] = Idle]

\* An async handler without try/catch rejects.  Express 5 passes the rejection to
\* the error handler (500 'Server error'); Express 4 does not see it, and the
\* request is never answered.
Unhandled(s, express5) ==
  IF express5 THEN Reply(s, 500, [error |-> "Server error"]) ELSE Reply(s, 0, NoBody)

----------------------------------------------------------------------------
(* The handlers: the pending db call of slot s runs, and the response is sent *)

Handling(s, route) == inflight[s] # Idle /\ inflight[s].route = route

\* POST /auth/register
HandleRegister(s, salt) ==
  /\ Handling(s, "POST /auth/register")
  /\ LET b == inflight[s].req.body
         r == createUser(b.username, b.email, b.role, b.password, salt)
     IN  IF r.ok
           THEN /\ users' = r.users
                /\ seq' = r.seq
                /\ tokens' = tokens \cup {signToken(r.user)}
                /\ Reply(s, 200, [token |-> signToken(r.user), user |-> r.user])
           ELSE /\ Reply(s, 400, [error |-> r.error])
                /\ UNCHANGED <<users, seq, tokens>>
  /\ UNCHANGED <<classes, announcements, enrollments, attendance, payments, now>>

\* POST /auth/login
HandleLogin(s) ==
  /\ Handling(s, "POST /auth/login")
  /\ LET b == inflight[s].req.body
         r == authenticateUser(b.identifier, b.password)
     IN  IF ~r.ok
           THEN /\ Reply(s, 500, [error |-> r.error])
                /\ UNCHANGED <<users, tokens>>
         ELSE IF ~r.found
           THEN /\ Reply(s, 401, [error |-> "Invalid credentials"])
                /\ UNCHANGED <<users, tokens>>
         ELSE /\ users' = r.users
              /\ tokens' = tokens \cup {signToken(r.user)}
              /\ Reply(s, 200, [token |-> signToken(r.user), user |-> r.user])
  /\ UNCHANGED <<classes, announcements, enrollments, attendance, payments, seq, now>>

\* GET /auth/me
HandleMe(s) ==
  /\ Handling(s, "GET /auth/me")
  /\ LET r == getUserById(inflight[s].user.userId) IN
       IF r.found THEN Reply(s, 200, [user |-> r.user])
       ELSE Reply(s, 404, [error |-> "User not found"])
  /\ UNCHANGED <<tables, tokens, now>>

\* GET /classes, GET /announcements, GET /my-enrollments, GET /my-attendance,
\* GET /my-payments
HandleList(s) ==
  /\ inflight[s] # Idle
  /\ LET u == inflight[s].user IN
       CASE inflight[s].route = "GET /classes" -> Reply(s, 200, [rows |-> listClasses])
         [] inflight[s].route = "GET /announcements" ->
              Reply(s, 200, [rows |-> listAnnouncements(u.role)])
         [] inflight[s].route = "GET /my-enrollments" ->
              Reply(s, 200, [rows |-> listEnrollmentsForStudent(u.userId)])
         [] inflight[s].route = "GET /my-attendance" ->
              Reply(s, 200, [rows |-> listAttendanceForStudent(u.userId)])
         [] inflight[s].route = "GET /my-payments" ->
              Reply(s, 200, [rows |-> listPaymentsForStudent(u.userId)])
         [] OTHER -> FALSE
  /\ UNCHANGED <<tables, tokens, now>>

\* POST /classes
HandleCreateClass(s, express5) ==
  /\ Handling(s, "POST /classes")
  /\ LET u == inflight[s].user
         r == createClass(inflight[s].req.body.title,
                          IF u.role = "teacher" THEN u.userId ELSE NoId)
     IN  IF r.ok
           THEN /\ classes' = r.classes
                /\ seq' = r.seq
                /\ Reply(s, 200, r.row)
           ELSE /\ Unhandled(s, express5)
                /\ UNCHANGED <<classes, seq>>
  /\ UNCHANGED <<users, announcements, enrollments, attendance, payments, tokens, now>>

\* POST /announcements
HandleCreateAnnouncement(s, express5) ==
  /\ Handling(s, "POST /announcements")
  /\ LET b == inflight[s].req.body
         r == createAnnouncement(b.title, IF b.audienceRole = "" THEN "all" ELSE b.audienceRole)
     IN  IF r.ok
           THEN /\ announcements' = r.announcements
                /\ seq' = r.seq
                /\ Reply(s, 200, r.row)
           ELSE /\ Unhandled(s, express5)
                /\ UNCHANGED <<announcements, seq>>
  /\ UNCHANGED <<users, classes, enrollments, attendance, payments, tokens, now>>

\* POST /enroll
HandleEnroll(s) ==
  /\ Handling(s, "POST /enroll")
  /\ LET r == enroll(inflight[s].req.body.classId, inflight[s].user.userId) IN
       IF r.ok
         THEN /\ enrollments' = r.enrollments
              /\ seq' = r.seq
              /\ Reply(s, 200, r.row)
         ELSE /\ Reply(s, 400, [error |-> r.error])
              /\ UNCHANGED <<enrollments, seq>>
  /\ UNCHANGED <<users, classes, announcements, attendance, payments, tokens, now>>

\* POST /attendance
HandleAttendance(s, express5) ==
  /\ Handling(s, "POST /attendance")
  /\ LET b == inflight[s].req.body
         r == markAttendance(b.classId, b.studentId, b.status, b.date)
     IN  IF r.ok
           THEN /\ attendance' = r.attendance
                /\ seq' = r.seq
                /\ Reply(s, 200, r.row)
           ELSE /\ Unhandled(s, express5)
                /\ UNCHANGED <<attendance, seq>>
  /\ UNCHANGED <<users, classes, announcements, enrollments, payments, tokens, now>>

\* POST /attendance served by several server processes opened on the same DB_FILE:
\* each statement of markAttendance is atomic in the engine, the function body is
\* not.  First statement: SELECT id FROM attendance WHERE classId, studentId, date
SelectAttendance(s) ==
  /\ Handling(s, "POST /attendance")
  /\ "existing" \notin DOMAIN inflight[s]
  /\ LET b == inflight[s].req.body
         isoDate == IsoDate(b.date)
         found == {a \in attendance :
                     a.classId = b.classId /\ a.studentId = b.studentId /\ a.date = isoDate}
     IN  inflight' = [inflight EXCEPT ![s] =
                        [route |-> @.route, req |-> @.req, user |-> @.user, recv |-> @.recv,
                         isoDate |-> isoDate,
                         existing |-> IF found = {} THEN NoId
                                      ELSE (CHOOSE a \in found : TRUE).id]]
  /\ UNCHANGED <<tables, tokens, now, last>>

\* the rest of markAttendance: UPDATE ... WHERE id = existing.id, or the INSERT
WriteAttendance(s, express5) ==
  /\ Handling(s, "POST /attendance")
  /\ "existing" \in DOMAIN inflight[s]
  /\ LET b == inflight[s].req.body
         id == inflight[s].existing
         row == [id |-> seq.attendance + 1, classId |-> b.classId,
                 studentId |-> b.studentId, date |-> inflight[s].isoDate,
                 status |-> b.status]
         ins == InsertAttendance(row)
         rows == {a \in attendance : a.id = id}
         updated == {[a EXCEPT !.status = b.status] : a \in rows}
     IN  IF id # NoId
           THEN IF rows # {} /\ b.status \notin AttendanceStatuses
                  THEN /\ Unhandled(s, express5)
                       /\ UNCHANGED <<attendance, seq>>
                ELSE /\ attendance' = (attendance \ rows) \cup updated
                     /\ UNCHANGED seq
                     /\ IF rows = {} THEN Reply(s, 200, NoBody)
                        ELSE Reply(s, 200, CHOOSE a \in updated : TRUE)
         ELSE IF ins.ok
           THEN /\ attendance' = ins.attendance
                /\ seq' = ins.seq
                /\ Reply(s, 200, row)
         ELSE /\ Unhandled(s, express5)
              /\ UNCHANGED <<attendance, seq>>
  /\ UNCHANGED <<users, classes, announcements, enrollments, payments, tokens, now>>

\* POST /payments
HandleCreatePayment(s, express5) ==
  /\ Handling(s, "POST /payments")
  /\ LET b == inflight[s].req.body
         r == createPayment(b.studentId, b.amountCents, b.status)
     IN  IF r.ok
           THEN /\ payments' = r.payments
                /\ seq' = r.seq
                /\ Reply(s, 200, r.row)
           ELSE /\ Unhandled(s, express5)
                /\ UNCHANGED <<payments, seq>>
  /\ UNCHANGED <<users, classes, announcements, enrollments, attendance, tokens, now>>

\* GET /payments: db.listAllPayments is undefined, the call throws a TypeError
HandleListAllPayments(s, express5) ==
  /\ Handling(s, "GET /payments")
  /\ IF "listAllPayments" \in DbExports THEN Reply(s, 200, [rows |-> payments])
     ELSE Unhandled(s, express5)
  /\ UNCHANGED <<tables, tokens, now>>

----------------------------------------------------------------------------
(* db.js functions no route calls: administrative calls on the data layer *)

DbCall(name, args) == [route |-> name, header |-> NoHeader, body |-> args]

UpdateUser(id, updates, salt) ==
  /\ LET r == updateUser(id, updates, salt) IN
       IF r.ok
         THEN /\ users' = r.users
              /\ last' = Exchange(DbCall("db.updateUser", [id |-> id, updates |-> updates]),
                                  NoClaims, NoTime, 0, [changed |-> r.changed])
         ELSE /\ UNCHANGED users
              /\ last' = Exchange(DbCall("db.updateUser", [id |-> id, updates |-> updates]),
                                  NoClaims, NoTime, 0, [error |-> r.error])
  /\ UNCHANGED <<classes, announcements, enrollments, attendance, payments, seq,
                 tokens, now, inflight>>

DeleteUser(id) ==
  /\ LET r == deleteUser(id) IN
       /\ users' = r.users
       /\ classes' = r.classes
       /\ enrollments' = r.enrollments
       /\ attendance' = r.attendance
       /\ payments' = r.payments
       /\ last' = Exchange(DbCall("db.deleteUser", [id |-> id]), NoClaims, NoTime, 0,
                           [changed |-> r.changed])
  /\ UNCHANGED <<announcements, seq, tokens, now, inflight>>

\* a day passes
Tick ==
  /\ now < MaxTime
  /\ now' = now + 1
  /\ UNCHANGED <<tables, tokens, inflight, last>>

----------------------------------------------------------------------------
(* Requests *)

RegisterReq(username, email, password, role) ==
  [route |-> "POST /auth/register", header |-> NoHeader,
   body |-> [username |-> username, email |-> email, password |-> password, role |-> role]]

LoginReq(identifier, password) ==
  [route |-> "POST /auth/login", header |-> NoHeader,
   body |-> [identifier |-> identifier, password |-> password]]

GetReq(route, header) == [route |-> route, header |-> header, body |-> NoBody]

ClassReq(header, title) ==
  [route |-> "POST /classes", header |-> header, body |-> [title |-> title]]

AnnouncementReq(header, title, body, audienceRole) ==
  [route |-> "POST /announcements", header |-> header,
   body |-> [title |-> title, body |-> body, audienceRole |-> audienceRole]]

EnrollReq(header, classId) ==
  [route |-> "POST /enroll", header |-> header, body |-> [classId |-> classId]]

AttendanceReq(header, classId, studentId, status, date) ==
  [route |-> "POST /attendance", header |-> header,
   body |-> [classId |-> classId, studentId |-> studentId, status |-> status, date |-> date]]

PaymentReq(header, studentId, amountCents, status) ==
  [route |-> "POST /payments", header |-> header,
   body |-> [studentId |-> studentId, amountCents |-> amountCents, status |-> status]]

\* the Authorization headers of clients that hold a token the server issued
IssuedHeaders == {Bearer(t) : t \in tokens}

\* ids a request may name: every id the tables can hold, and one beyond
UserIdInputs == 1..(MaxUsers + 1)
ClassIdInputs == 1..(MaxClasses + 1)

----------------------------------------------------------------------------
(* The ledgers: enrollment, attendance and payments of registered users,    *)
(* with the administrative deletion of users.  Requests arrive one at a     *)
(* time, on one connection.                                                 *)

\* last day on which the ledgers are exercised
MaxLedgerDay == 1

FirstSlot == {1}

\* the accounts of the ledger scenarios: a student and an administrator
SetupRequests ==
  {RegisterReq(S_a, null, "pw1", "student"), RegisterReq(S_b, null, "pw1", "admin")}
  \cup {ClassReq(h, "t") : h \in IssuedHeaders}

\* the users a teacher or administrator marks and charges
StudentIds == {u.id : u \in {x \in users : x.role = "student"}}

\* Enrollment: students enroll, on connections that interleave
EnrollRequests == {EnrollReq(h, c) : h \in IssuedHeaders, c \in ClassIdInputs}

NextEnroll ==
  \/ \E s \in FirstSlot, req \in SetupRequests : Receive(s, req)
  \/ \E s \in Slots, req \in EnrollRequests : Receive(s, req)
  \/ \E s \in FirstSlot : HandleRegister(s, "s1")
  \/ \E s \in FirstSlot, e5 \in BOOLEAN : HandleCreateClass(s, e5)
  \/ \E s \in Slots : HandleEnroll(s)

SpecEnroll == Init /\ [][NextEnroll]_vars

\* Attendance: teachers and administrators mark, day after day
AttendanceRequests ==
  {AttendanceReq(h, c, u, st, d) : h \in IssuedHeaders, c \in {1, MaxClasses + 1},
     u \in StudentIds, st \in {"present", "late"}, d \in {NoTime, 0}}

NextAttendance ==
  \/ \E s \in FirstSlot, req \in SetupRequests \cup AttendanceRequests : Receive(s, req)
  \/ \E s \in FirstSlot : HandleRegister(s, "s1")
  \/ \E s \in FirstSlot, e5 \in BOOLEAN : HandleCreateClass(s, e5)
  \/ \E s \in FirstSlot, e5 \in BOOLEAN : HandleAttendance(s, e5)
  \/ (now < MaxLedgerDay /\ Tick)

SpecAttendance == Init /\ [][NextAttendance]_vars

\* Deletion of users that own rows in every ledger
CascadeRequests ==
  SetupRequests
  \cup {EnrollReq(h, 1) : h \in IssuedHeaders}
  \cup {AttendanceReq(h, 1, u, "present", 0) : h \in IssuedHeaders, u \in StudentIds}
  \cup {PaymentReq(h, u, 5, "") : h \in IssuedHeaders, u \in StudentIds}

NextCascade ==
  \/ \E s \in FirstSlot, req \in CascadeRequests : Receive(s, req)
  \/ \E s \in FirstSlot : HandleRegister(s, "s1")
  \/ \E s \in FirstSlot, e5 \in BOOLEAN : HandleCreateClass(s, e5)
  \/ \E s \in FirstSlot : HandleEnroll(s)
  \/ \E s \in FirstSlot, e5 \in BOOLEAN : HandleAttendance(s, e5)
  \/ \E s \in FirstSlot, e5 \in BOOLEAN : HandleCreatePayment(s, e5)
  \/ \E id \in UserIdInputs : DeleteUser(id)

SpecCascade == Init /\ [][NextCascade]_vars

----------------------------------------------------------------------------
(* The guards: every route, asked with every kind of Authorization header *)

\* tokens the server did not issue: a string that is no JWT, a JWT signed with
\* another key, and JWTs signed with JWT_SECRET by another issuer (the secret is
\* process-wide configuration with a published default) that carry no role, or a
\* role that is none of the three
GarbageToken == [kind |-> "garbage", sig |-> "", payload |-> NoClaims]

OutsideToken(key, role) ==
  [kind |-> "jwt", sig |-> key,
   payload |-> [userId |-> 1, role |-> role, username |-> S_a, iat |-> 0, exp |-> TokenTTL]]

OutsideTokens ==
  {GarbageToken, OutsideToken("another key", "admin"),
   OutsideToken(JWT_SECRET, ""), OutsideToken(JWT_SECRET, "guest")}

GuardHeaders ==
  {NoHeader, [scheme |-> "Basic", token |-> GarbageToken], Bearer(NoToken)}
  \cup {Bearer(t) : t \in tokens \cup OutsideTokens}

GetRoutes ==
  {"GET /auth/me", "GET /classes", "GET /announcements", "GET /my-enrollments",
   "GET /my-attendance", "GET /my-payments", "GET /payments"}

GuardRequests ==
  {RegisterReq(S_a, null, "pw1", r) : r \in Roles}
  \cup {GetReq(r, h) : r \in GetRoutes, h \in GuardHeaders}
  \cup {ClassReq(h, "t") : h \in GuardHeaders}
  \cup {AnnouncementReq(h, "t", "b", "") : h \in GuardHeaders}
  \cup {EnrollReq(h, 1) : h \in GuardHeaders}
  \cup {AttendanceReq(h, 1, 1, "present", 0) : h \in GuardHeaders}
  \cup {PaymentReq(h, 1, 5, "") : h \in GuardHeaders}

NextGuard ==
  \/ \E s \in FirstSlot, req \in GuardRequests : Receive(s, req)
  \/ \E s \in FirstSlot : Health(s)
  \/ \E s \in FirstSlot : HandleRegister(s, "s1")
  \/ \E s \in FirstSlot : HandleMe(s)
  \/ \E s \in FirstSlot : HandleList(s)
  \/ \E s \in FirstSlot, e5 \in BOOLEAN : HandleCreateClass(s, e5)
  \/ \E s \in FirstSlot, e5 \in BOOLEAN : HandleCreateAnnouncement(s, e5)
  \/ \E s \in FirstSlot : HandleEnroll(s)
  \/ \E s \in FirstSlot, e5 \in BOOLEAN : HandleAttendance(s, e5)
  \/ \E s \in FirstSlot, e5 \in BOOLEAN : HandleCreatePayment(s, e5)
  \/ \E s \in FirstSlot, e5 \in BOOLEAN : HandleListAllPayments(s, e5)

SpecGuard == Init /\ [][NextGuard]_vars

----------------------------------------------------------------------------
(* Tokens over time: a user registers, days pass, the user's role is changed or *)
(* the user is deleted, and the token is presented all along.                   *)

\* Tokens over their lifetime: one account, its token and a token signed with
\* another key, presented on every day up to MaxTime
TokenHeaders == {Bearer(t) : t \in tokens \cup {OutsideToken("another key", "student")}}

ClockRequests ==
  {RegisterReq(S_a, null, "pw1", r) : r \in {"student", "teacher"}}
  \cup {GetReq("GET /auth/me", h) : h \in TokenHeaders}
  \cup {ClassReq(h, "t") : h \in TokenHeaders}
  \cup {AttendanceReq(h, 1, 1, "present", 0) : h \in TokenHeaders}

NextClock ==
  \/ \E s \in FirstSlot, req \in ClockRequests : Receive(s, req)
  \/ \E s \in FirstSlot : HandleRegister(s, "s1")
  \/ \E s \in FirstSlot : HandleMe(s)
  \/ \E s \in FirstSlot, e5 \in BOOLEAN : HandleCreateClass(s, e5)
  \/ \E s \in FirstSlot, e5 \in BOOLEAN : HandleAttendance(s, e5)
  \/ Tick

SpecClock == Init /\ [][NextClock]_vars

\* Tokens that outlive a change of their user: the role is rewritten or the user
\* deleted while requests bearing the earlier token keep arriving
RoleChangeRequests ==
  {RegisterReq(S_a, null, "pw1", r) : r \in {"student", "teacher"}}
  \cup {GetReq("GET /auth/me", h) : h \in TokenHeaders}
  \cup {ClassReq(h, "t") : h \in TokenHeaders}

NextRoleChange ==
  \/ \E s \in FirstSlot, req \in RoleChangeRequests : Receive(s, req)
  \/ \E s \in FirstSlot : HandleRegister(s, "s1")
  \/ \E s \in FirstSlot : HandleMe(s)
  \/ \E s \in FirstSlot, e5 \in BOOLEAN : HandleCreateClass(s, e5)
  \/ \E id \in UserIds, r \in {"student", "teacher"} : UpdateUser(id, [NoUpdates EXCEPT !.role = r], "s1")
  \/ \E id \in UserIds : DeleteUser(id)
  \/ (now < MaxLedgerDay /\ Tick)

SpecRoleChange == Init /\ [][NextRoleChange]_vars

\* Identities: two accounts compete for usernames and emails written with padding
\* and in upper case, log in with either password, and are renamed
IdentityRequests ==
  {RegisterReq(u, e, p, "student") :
     u \in {S_a_pad, S_mail}, e \in {null, S_Mail}, p \in {"pw1", "pw2"}}
  \cup {LoginReq(i, p) : i \in {S_a_pad, S_mail}, p \in {"pw1", "pw2"}}
  \cup {GetReq("GET /auth/me", h) : h \in IssuedHeaders}

IdentityUpdates ==
  {[NoUpdates EXCEPT !.username = u, !.email = e] :
     u \in {undefined, S_a}, e \in {undefined, S_Mail}}

NextIdentity ==
  \/ \E s \in FirstSlot, req \in IdentityRequests : Receive(s, req)
  \/ \E s \in FirstSlot : HandleRegister(s, "s1")
  \/ \E s \in FirstSlot : HandleLogin(s)
  \/ \E s \in FirstSlot : HandleMe(s)
  \/ \E id \in UserIds, updates \in IdentityUpdates : UpdateUser(id, updates, "s1")

SpecIdentity == Init /\ [][NextIdentity]_vars

\* Payments: an admin charges students amounts below, at and above zero, with the
\* status left out, valid, and outside the closed set
PaymentAmounts == {-5, 0, 5}

PaymentRequests ==
  {RegisterReq(S_a, null, "pw1", "student"), RegisterReq(S_b, null, "pw1", "admin")}
  \cup {PaymentReq(h, u, a, st) :
          h \in IssuedHeaders, u \in UserIdInputs, a \in PaymentAmounts,
          st \in {"", "paid", "bogus"}}

NextPayment ==
  \/ \E s \in FirstSlot, req \in PaymentRequests : Receive(s, req)
  \/ \E s \in FirstSlot : HandleRegister(s, "s1")
  \/ \E s \in FirstSlot, e5 \in BOOLEAN : HandleCreatePayment(s, e5)

SpecPayment == Init /\ [][NextPayment]_vars

\* Failures: requests whose db call hits a UNIQUE, a CHECK or a FOREIGN KEY
\* constraint, next to ones that succeed
ErrorRequests ==
  {RegisterReq(u, null, "pw1", r) : u \in {S_a, S_b}, r \in {"student", "admin", "guest"}}
  \cup {LoginReq(S_a, p) : p \in {"pw1", "pw2"}}
  \cup {ClassReq(h, "t") : h \in IssuedHeaders}
  \cup {EnrollReq(h, c) : h \in IssuedHeaders, c \in ClassIdInputs}
  \cup {AttendanceReq(h, 1, 1, st, 0) : h \in IssuedHeaders, st \in {"present", "bogus"}}
  \cup {PaymentReq(h, 1, 5, st) : h \in IssuedHeaders, st \in {"", "bogus"}}
  \cup {GetReq("GET /payments", h) : h \in IssuedHeaders}

NextError ==
  \/ \E s \in FirstSlot, req \in ErrorRequests : Receive(s, req)
  \/ \E s \in FirstSlot : HandleRegister(s, "s1")
  \/ \E s \in FirstSlot : HandleLogin(s)
  \/ \E s \in FirstSlot, e5 \in BOOLEAN : HandleCreateClass(s, e5)
  \/ \E s \in FirstSlot : HandleEnroll(s)
  \/ \E s \in FirstSlot, e5 \in BOOLEAN : HandleAttendance(s, e5)
  \/ \E s \in FirstSlot, e5 \in BOOLEAN : HandleCreatePayment(s, e5)
  \/ \E s \in FirstSlot, e5 \in BOOLEAN : HandleListAllPayments(s, e5)

SpecError == Init /\ [][NextError]_vars

\* Marks that race: the same triple is marked on every connection while the
\* statements of the calls interleave
RaceRequests ==
  SetupRequests
  \cup {AttendanceReq(h, 1, 1, st, 0) : h \in IssuedHeaders, st \in {"present", "late"}}

NextRace ==
  \/ \E s \in FirstSlot, req \in SetupRequests : Receive(s, req)
  \/ \E s \in Slots, req \in RaceRequests \ SetupRequests : Receive(s, req)
  \/ \E s \in FirstSlot : HandleRegister(s, "s1")
  \/ \E s \in FirstSlot, e5 \in BOOLEAN : HandleCreateClass(s, e5)
  \/ \E s \in Slots : SelectAttendance(s)
  \/ \E s \in Slots, e5 \in BOOLEAN : WriteAttendance(s, e5)

SpecRace == Init /\ [][NextRace]_vars

----------------------------------------------------------------------------
(* The whole program: every request on every connection, every db call *)

Requests ==
  EnrollRequests \cup AttendanceRequests \cup CascadeRequests \cup GuardRequests
  \cup ClockRequests \cup RoleChangeRequests \cup IdentityRequests
  \cup PaymentRequests \cup ErrorRequests \cup RaceRequests

Next ==
  \/ \E s \in Slots, req \in Requests : Receive(s, req)
  \/ \E s \in Slots : Health(s)
  \/ \E s \in Slots, salt \in {"s1", "s2"} : HandleRegister(s, salt)
  \/ \E s \in Slots : HandleLogin(s)
  \/ \E s \in Slots : HandleMe(s)
  \/ \E s \in Slots : HandleList(s)
  \/ \E s \in Slots, e5 \in BOOLEAN : HandleCreateClass(s, e5)
  \/ \E s \in Slots, e5 \in BOOLEAN : HandleCreateAnnouncement(s, e5)
  \/ \E s \in Slots : HandleEnroll(s)
  \/ \E s \in Slots, e5 \in BOOLEAN : HandleAttendance(s, e5)
  \/ \E s \in Slots : SelectAttendance(s)
  \/ \E s \in Slots, e5 \in BOOLEAN : WriteAttendance(s, e5)
  \/ \E s \in Slots, e5 \in BOOLEAN : HandleCreatePayment(s, e5)
  \/ \E s \in Slots, e5 \in BOOLEAN : HandleListAllPayments(s, e5)
  \/ \E id \in UserIdInputs, updates \in IdentityUpdates, salt \in {"s1", "s2"} :
       UpdateUser(id, updates, salt)
  \/ \E id \in UserIdInputs : DeleteUser(id)
  \/ Tick

Spec == Init /\ [][Next]_vars

----------------------------------------------------------------------------
(* Enrollment ledger *)

PairRows(classId, studentId) ==
  {e \in enrollments : e.classId = classId /\ e.studentId = studentId}

EnrollCompleted(status) == last.req.route = "POST /enroll" /\ last.status = status

\* the pair of the enroll call that the last exchange answered
LastPairRows == PairRows(last.req.body.classId, last.user.userId)

C1_State ==
  /\ \A e1, e2 \in enrollments :
       (e1.classId = e2.classId /\ e1.studentId = e2.studentId) => e1 = e2
  /\ EnrollCompleted(200) => Cardinality(LastPairRows) = 1

\* while no user is deleted, the row of an enrolled pair stays, alone
C1_Step ==
  UserIds' = UserIds =>
    \A e \in enrollments : Cardinality(PairRows(e.classId, e.studentId)') = 1

\* C1: under every interleaving of enroll calls (two pending calls for the same pair
\* included) the enrollments table holds at most one row per (classId, studentId),
\* and exactly one row for a pair from the moment an enroll for it has succeeded.
C1_EnrollAtMostOnce == [](C1_State) /\ [][C1_Step]_vars

\* an enroll has succeeded while another enroll for the same pair is pending
C1_Witness ==
  /\ EnrollCompleted(200)
  /\ Cardinality(LastPairRows) = 1
  /\ \E s \in Slots :
       /\ Handling(s, "POST /enroll")
       /\ inflight[s].req.body.classId = last.req.body.classId
       /\ inflight[s].user.userId = last.user.userId

\* C2: an enroll for a pair that is already enrolled is answered as a normal result
\* that reports created = false, not as an error, and leaves the table as it was.
C2_DuplicateEnrollIsNoOp ==
  [][\A s \in Slots :
       ( /\ Handling(s, "POST /enroll")
         /\ inflight'[s] = Idle
         /\ PairRows(inflight[s].req.body.classId, inflight[s].user.userId) # {} )
       => ( /\ last'.status = 200
            /\ "created" \in DOMAIN last'.body
            /\ last'.body.created = FALSE
            /\ enrollments' = enrollments )]_vars

----------------------------------------------------------------------------
(* Attendance ledger *)

TripleRows(classId, studentId, date) ==
  {a \in attendance : a.classId = classId /\ a.studentId = studentId /\ a.date = date}

MarkCompleted == last.req.route = "POST /attendance" /\ last.status = 200

C3_State ==
  /\ \A a1, a2 \in attendance :
       (a1.classId = a2.classId /\ a1.studentId = a2.studentId /\ a1.date = a2.date)
         => a1 = a2
  /\ MarkCompleted =>
       /\ TripleRows(last.req.body.classId, last.req.body.studentId, last.body.date)
            = {last.body}
       /\ last.body.status = last.req.body.status
       /\ last.req.body.date # NoTime => last.body.date = last.req.body.date

\* a row keeps its id and its triple for as long as its student exists, and a mark
\* without a date is answered with the row of the current day
C3_Step ==
  /\ \A a \in attendance :
       a.studentId \in UserIds' =>
         \E a2 \in attendance' :
           /\ a2.id = a.id
           /\ a2.classId = a.classId /\ a2.studentId = a.studentId /\ a2.date = a.date
  /\ \A s \in Slots :
       ( /\ Handling(s, "POST /attendance")
         /\ inflight'[s] = Idle
         /\ last'.status = 200
         /\ inflight[s].req.body.date = NoTime )
       => last'.body.date = now

\* C3: after every answered mark the attendance table holds exactly one row for the
\* (classId, studentId, date) triple, with the status of that mark; a later mark
\* keeps the id the first mark was given; a mark without a date is keyed on the
\* current day.
C3_AttendanceUpsert == [](C3_State) /\ [][C3_Step]_vars

\* a second mark, without a date, has overwritten the status of the first row
C3_Witness ==
  /\ MarkCompleted
  /\ last.req.body.date = NoTime
  /\ last.body.status = "late"
  /\ last.body.id < seq.attendance
  /\ last.body.date > 0

----------------------------------------------------------------------------
(* Deletion of users *)

DeleteCompleted == last.req.route = "db.deleteUser" /\ last.body.changed

\* C10: every enrollment, attendance and payment row references an existing user in
\* every reachable state, and once deleteUser(id) has returned true no row
\* references id: the user and its rows go in one step.
C10_CascadeKeepsIntegrity ==
  /\ \A e \in enrollments : e.studentId \in UserIds /\ e.classId \in ClassIds
  /\ \A a \in attendance : a.studentId \in UserIds /\ a.classId \in ClassIds
  /\ \A p \in payments : p.studentId \in UserIds
  /\ \A c \in classes : c.teacherId \in UserIds \cup {NoId}
  /\ DeleteCompleted =>
       /\ last.req.body.id \notin UserIds
       /\ \A r \in enrollments \cup attendance : r.studentId # last.req.body.id
       /\ \A p \in payments : p.studentId # last.req.body.id

\* a user that owned a row in each ledger has been deleted
C10_Witness ==
  /\ DeleteCompleted
  /\ seq.enrollments > Cardinality(enrollments)
  /\ seq.attendance > Cardinality(attendance)
  /\ seq.payments > Cardinality(payments)

----------------------------------------------------------------------------
(* Authorization guard *)

Protected == Routes \ {"GET /", "POST /auth/register", "POST /auth/login"}

\* a Bearer token was extracted from the header and verifies on day t
Verified(header, t) == header.scheme = "Bearer" /\ jwtVerify(header.token, t).ok

\* the route declares no role set, or the claims carry a role of its set
RoleAllowed(route, claims) ==
  \/ RouteTable[route].roles = AnyRole
  \/ claims.role # "" /\ claims.role \in RouteTable[route].roles

\* what the guards must have found for a request that reached its handler
PassedGuards(route, header, t, user) ==
  /\ Verified(header, t)
  /\ RoleAllowed(route, header.token.payload)
  /\ user = header.token.payload

C5_State ==
  /\ last.req.route \in Protected =>
       /\ last.status = 401 <=> ~Verified(last.req.header, last.recv)
       /\ last.status = 403 <=>
            /\ Verified(last.req.header, last.recv)
            /\ ~RoleAllowed(last.req.route, last.req.header.token.payload)
       /\ last.status \notin {401, 403} =>
            PassedGuards(last.req.route, last.req.header, last.recv, last.user)
  /\ \A s \in Slots :
       (inflight[s] # Idle /\ inflight[s].route \in Protected) =>
         PassedGuards(inflight[s].route, inflight[s].req.header, inflight[s].recv,
                      inflight[s].user)

\* the tables change only when the pending db call of some request runs
C5_Step ==
  tables' # tables => \E s \in Slots : inflight[s] # Idle /\ inflight'[s] = Idle

\* C5: on every route but register, login and health, the handler's db call runs only
\* for a request whose Bearer token verified and whose role is in the route's role
\* set (if it declares one); no or a non-Bearer header and a failing token are
\* answered 401, verified claims without a role or with a role outside the set 403.
C5_GuardFailsClosed == [](C5_State) /\ [][C5_Step]_vars

\* a token that verifies but carries no role was refused on a role-restricted route
C5_Witness ==
  /\ last.req.route \in Protected
  /\ Verified(last.req.header, last.recv)
  /\ last.req.header.token.payload.role = ""
  /\ last.status = 403

----------------------------------------------------------------------------
(* Role enforcement for students *)

\* the routes restricted to teachers and admins: POST /classes, POST /attendance
StaffOnly == {r \in Routes : RouteTable[r].roles = {"teacher", "admin"}}

\* the exchange is a request to a staff-only route bearing a token whose role
\* claim is student
StudentOnStaffRoute(x) ==
  /\ x.req.route \in StaffOnly
  /\ x.req.header.scheme = "Bearer"
  /\ x.req.header.token.kind = "jwt"
  /\ x.req.header.token.payload.role = "student"

\* C4 as stated: a student's request to a staff-only route is answered 403 whether
\* or not its token is valid.
C4_StudentAlwaysForbidden == StudentOnStaffRoute(last) => last.status = 403

C4_State ==
  /\ StudentOnStaffRoute(last) =>
       /\ Verified(last.req.header, last.recv) =>
            last.status = 403 /\ last.body = [error |-> "Forbidden"]
       /\ ~Verified(last.req.header, last.recv) =>
            last.status = 401 /\ last.body = [error |-> "Invalid token"]
  /\ \A s \in Slots :
       (inflight[s] # Idle /\ inflight[s].route \in StaffOnly) =>
         inflight[s].user.role \in {"teacher", "admin"}

C4_Step ==
  /\ (last' # last /\ StudentOnStaffRoute(last')) => tables' = tables
  /\ (classes' # classes \/ attendance' # attendance) =>
       \E s \in Slots : /\ inflight[s] # Idle
                        /\ inflight[s].route \in StaffOnly
                        /\ inflight[s].user.role \in {"teacher", "admin"}

\* C4 (amended): a request to POST /classes or POST /attendance bearing a token
\* whose role claim is student never reaches its handler and changes no table; it
\* is answered 403 'Forbidden' when the token verifies and 401 'Invalid token' when
\* the token is expired or signed with another key.
C4_StudentNeverPasses == [](C4_State) /\ [][C4_Step]_vars

\* a registered student's valid token was refused on POST /attendance
C4_Witness ==
  /\ StudentOnStaffRoute(last)
  /\ last.req.route = "POST /attendance"
  /\ last.req.header.token \in tokens
  /\ Verified(last.req.header, last.recv)
  /\ last.status = 403

----------------------------------------------------------------------------
(* Token lifetime *)

\* the exchange presented a token that this server signed
BearsIssued(x) ==
  /\ x.req.route \in Protected
  /\ x.req.header.scheme = "Bearer"
  /\ x.req.header.token \in tokens

\* the exchange presented a token signed with another key
BearsForged(x) ==
  /\ x.req.route \in Protected
  /\ x.req.header.scheme = "Bearer"
  /\ x.req.header.token.kind = "jwt"
  /\ x.req.header.token.sig # JWT_SECRET

InvalidTokenReply(x) == x.status = 401 /\ x.body = [error |-> "Invalid token"]

\* C6: a token signed for a user expires TokenTTL days after it was signed; on every
\* earlier day it verifies with the id and role of that user, and a request bearing
\* it passes requireAuth with these claims; from the day of expiry on it is answered
\* 401 'Invalid token', the answer a token signed with another key gets.
C6_TokenLifetime ==
  /\ \A t \in tokens :
       /\ t.payload.exp = t.payload.iat + TokenTTL
       /\ \E u \in users : u.id = t.payload.userId /\ u.role = t.payload.role
       /\ \A d \in 0..MaxTime :
            /\ jwtVerify(t, d).ok <=> d < t.payload.exp
            /\ jwtVerify(t, d).ok => jwtVerify(t, d).claims = t.payload
  /\ (last.req.route = "POST /auth/register" /\ last.status = 200) =>
       /\ last.body.token \in tokens
       /\ last.body.token.payload.iat >= last.recv
       /\ last.body.token.payload.userId = last.body.user.id
       /\ last.body.token.payload.role = last.body.user.role
  /\ BearsIssued(last) =>
       IF last.recv < last.req.header.token.payload.exp
         THEN /\ last.status # 401
              /\ last.status # 403 => last.user = last.req.header.token.payload
         ELSE InvalidTokenReply(last)
  /\ BearsForged(last) => InvalidTokenReply(last)

\* an issued token was presented on the day it expired and refused
C6_Witness ==
  /\ BearsIssued(last)
  /\ last.recv = last.req.header.token.payload.exp
  /\ InvalidTokenReply(last)

----------------------------------------------------------------------------
(* Frozen claims *)

\* the role the users table holds for the subject of the token ("" once deleted)
StoredRole(token) ==
  IF token.payload.userId \in UserIds THEN UserById(token.payload.userId).role ELSE ""

C7_State ==
  /\ BearsIssued(last) =>
       /\ last.status # 401
       /\ last.status = 403 <=> ~RoleAllowed(last.req.route, last.req.header.token.payload)
       /\ last.status # 403 => last.user = last.req.header.token.payload
  /\ \A s \in Slots :
       (inflight[s] # Idle /\ inflight[s].route \in Protected) =>
         /\ inflight[s].user = inflight[s].req.header.token.payload
         /\ RoleAllowed(inflight[s].route, inflight[s].user)
  /\ \A t \in tokens : jwtVerify(t, now).ok /\ jwtVerify(t, now).claims = t.payload

\* no step takes a token back, and a step that writes the users table leaves what
\* requireAuth makes of every issued token as it was: the claims it was signed with
C7_Step ==
  /\ tokens \subseteq tokens'
  /\ users' # users =>
       \A t \in tokens :
         /\ requireAuth(Bearer(t))' = requireAuth(Bearer(t))
         /\ requireAuth(Bearer(t)).status = 200 => requireAuth(Bearer(t)).user = t.payload

\* C7: no change or deletion of a user touches the tokens signed for that user
\* earlier: before its expiry such a token still verifies with the id and role it
\* was signed with, and requireRole decides on the token's role, whatever role the
\* users table now holds.
C7_ClaimsFrozen == [](C7_State) /\ [][C7_Step]_vars

\* a student was promoted, and the token from before the promotion was still
\* refused on POST /classes
C7_Witness ==
  /\ BearsIssued(last)
  /\ last.req.route = "POST /classes"
  /\ last.req.header.token.payload.role = "student"
  /\ StoredRole(last.req.header.token) \in {"teacher", "admin"}
  /\ last.status = 403

----------------------------------------------------------------------------
(* Identity *)

\* the username and email a body is stored under
StoredUsername(username) == normalizeIdentifier(username)
StoredEmail(email) ==
  IF Truthy(email) THEN toLowerCase(normalizeIdentifier(email)) ELSE null

E_DUPLICATE_CREATE == "User with this username or email already exists"
E_DUPLICATE_UPDATE == "Update would violate unique constraints (username/email)"

\* no two users share an id, a username or a non-null email
C8_Unique ==
  \A u1, u2 \in users :
    ( \/ u1.id = u2.id
      \/ u1.username = u2.username
      \/ (u1.email # null /\ u1.email = u2.email) ) => u1 = u2

\* a login under the username of a user succeeds exactly with that user's password,
\* and its token carries that user's role
C8_Login ==
  (last.req.route = "POST /auth/login" /\ last.status # 400) =>
    \A x \in users :
      x.username = StoredUsername(last.req.body.identifier) =>
        /\ last.status = 200 <=> comparePassword(last.req.body.password, x.passwordHash)
        /\ last.status # 200 => last.status = 401
        /\ last.status = 200 =>
             /\ last.body.user.id = x.id
             /\ last.body.token.payload.userId = x.id
             /\ last.body.token.payload.role = x.role

\* a registration or an update that would repeat the username or the email of
\* another user is refused with the duplicate message and leaves the table as it was
C8_Step ==
  /\ \A s \in Slots :
       (Handling(s, "POST /auth/register") /\ inflight'[s] = Idle) =>
         LET b == inflight[s].req.body IN
         (\E x \in users : \/ x.username = StoredUsername(b.username)
                           \/ (StoredEmail(b.email) # null /\ x.email = StoredEmail(b.email)))
           => /\ users' = users
              /\ last'.status = 400
              /\ last'.body = [error |-> E_DUPLICATE_CREATE]
  /\ (last'.req.route = "db.updateUser" /\ (last' # last \/ users' # users)) =>
       LET id == last'.req.body.id
           up == last'.req.body.updates
       IN  (\E x \in users :
              /\ x.id # id /\ id \in UserIds
              /\ \/ (up.username # undefined /\ x.username = StoredUsername(up.username))
                 \/ (up.email # undefined /\ StoredEmail(up.email) # null
                       /\ x.email = StoredEmail(up.email)))
             => /\ users' = users
                /\ last'.body = [error |-> E_DUPLICATE_UPDATE]

\* C8: usernames and non-null emails stay unique; a createUser or updateUser that
\* would repeat one fails with the duplicate error and changes nothing; a login
\* under a registered username fails with another password and succeeds with the
\* registered one, returning a token with the registered role.
C8_IdentityUnique == [](C8_Unique /\ C8_Login) /\ [][C8_Step]_vars

\* the part of C8 about the table alone
C8_TableUnique == [](C8_Unique) /\ [][C8_Step]_vars

----------------------------------------------------------------------------
(* The password hash *)

IdentityStrings == {S_a, S_a_pad, S_A, S_mail, S_Mail, S_blank}

NoHash(user) == "passwordHash" \notin DOMAIN user

\* C9: no user value that createUser, getUserById, findUserByEmail,
\* findUserByUsername or authenticateUser returns, and no register, login or
\* /auth/me response, has a passwordHash field; the row of getUserAuthByIdentifier
\* has one; every stored user has a non-empty hash.
C9_HashNeverExposed ==
  /\ \A u \in users : "passwordHash" \in DOMAIN u /\ Len(u.passwordHash) > 0
  /\ "passwordHash" \notin DOMAIN last.body
  /\ "user" \in DOMAIN last.body => NoHash(last.body.user)
  /\ "token" \in DOMAIN last.body => NoHash(last.body.token.payload)
  /\ \A id \in UserIdInputs : getUserById(id).found => NoHash(getUserById(id).user)
  /\ \A i \in IdentityStrings :
       /\ findUserByEmail(i).found => NoHash(findUserByEmail(i).user)
       /\ findUserByUsername(i).found => NoHash(findUserByUsername(i).user)
       /\ getUserAuthByIdentifier(i).found => ~NoHash(getUserAuthByIdentifier(i).row)
       /\ \A pw \in {"pw1", "pw2"} :
            /\ (authenticateUser(i, pw).ok /\ authenticateUser(i, pw).found) =>
                 NoHash(authenticateUser(i, pw).user)
            /\ createUser(i, null, "student", pw, "s1").ok =>
                 NoHash(createUser(i, null, "student", pw, "s1").user)

\* a login succeeded and answered with the user it found through the lookup that
\* carries the hash
C9_Witness ==
  /\ last.req.route = "POST /auth/login"
  /\ last.status = 200
  /\ getUserAuthByIdentifier(last.req.body.identifier).found
  /\ last.body.user.id = getUserAuthByIdentifier(last.req.body.identifier).row.id

----------------------------------------------------------------------------
(* Payments *)

\* the exchange is a POST /payments that passed the guards
PaymentAsked(x) == x.req.route = "POST /payments" /\ x.status \notin {401, 403}

\* C11: every stored payment has a non-negative amount and a status of the closed
\* set; a payment request with a negative amount is refused and stores nothing, and
\* one with a non-negative amount (0 included), an existing student and a valid or
\* omitted status is answered with the stored record.
C11_AmountValidated ==
  /\ \A p \in payments : p.amountCents >= 0 /\ p.status \in PaymentStatuses
  /\ PaymentAsked(last) =>
       LET b == last.req.body IN
       /\ b.amountCents < 0 => last.status = 400
       /\ ( /\ b.amountCents >= 0
            /\ b.studentId \in UserIds
            /\ b.status \in PaymentStatuses \cup {""} )
          => /\ last.status = 200
             /\ last.body \in payments
             /\ last.body.amountCents = b.amountCents

\* what holds of C11: the status of every stored payment is of the closed set
C11_StatusClosed == \A p \in payments : p.status \in PaymentStatuses

----------------------------------------------------------------------------
(* Error text *)

\* the messages the storage engine itself raises
EngineMessages ==
  {E_UNIQUE_USERNAME, E_UNIQUE_EMAIL, E_UNIQUE_ENROLL, E_UNIQUE_ATTEND,
   E_CHECK_ROLE, E_CHECK_STATUS, E_CHECK_AUDIENCE, E_FOREIGN_KEY}

FailedRequest(x) ==
  /\ x.req.route \in {"POST /auth/register", "POST /auth/login", "POST /enroll",
                      "POST /attendance", "POST /payments"}
  /\ "error" \in DOMAIN x.body

\* C12: the error of no failing register, login, enroll, attendance or payment
\* response is a message of the storage engine.
C12_NoEngineText == FailedRequest(last) => last.body.error \notin EngineMessages

\* what holds of C12: a UNIQUE violation is always translated, and a failing
\* attendance or payment call is answered with 'Server error' or not at all
C12_UniqueTranslated ==
  FailedRequest(last) =>
    /\ ~IsUniqueError(last.body.error)
    /\ last.req.route \in {"POST /attendance", "POST /payments"} =>
         last.body.error \notin EngineMessages

----------------------------------------------------------------------------
(* The race to insert *)

\* slot s holds a mark of an existing class and student with a valid status whose
\* SELECT found no row of its triple
FoundNone(s) ==
  /\ Handling(s, "POST /attendance")
  /\ "existing" \in DOMAIN inflight[s]
  /\ inflight[s].existing = NoId
  /\ inflight[s].req.body.classId \in ClassIds
  /\ inflight[s].req.body.studentId \in UserIds
  /\ inflight[s].req.body.status \in AttendanceStatuses

\* C13: a mark whose SELECT found no row is answered with the row of its triple
\* whatever other marks wrote in between: the write never fails on the UNIQUE
\* constraint, and afterwards exactly one row holds the triple, with the status of
\* this, the later write.
C13_RaceTolerated ==
  [][ \A s \in Slots :
        (FoundNone(s) /\ inflight'[s] = Idle) =>
          LET b == inflight[s].req.body IN
          /\ last'.status = 200
          /\ {a \in attendance' : /\ a.classId = b.classId
                                  /\ a.studentId = b.studentId
                                  /\ a.date = inflight[s].isoDate}
               = {last'.body}
          /\ last'.body.status = b.status ]_vars

\* what holds of C13: the UNIQUE constraint keeps one row per triple
C13_OneRowPerTriple ==
  \A a1, a2 \in attendance :
    (a1.classId = a2.classId /\ a1.studentId = a2.studentId /\ a1.date = a2.date)
      => a1 = a2

----------------------------------------------------------------------------
(* One response per request *)

\* C14: every request that was handled was answered: a failing markAttendance or
\* createPayment and the list of all payments end in an error response, never in no
\* response at all.
C14_AlwaysAnswered == last.req.route \in Routes => last.status # 0

\* what holds of C14: a request that is not answered 200 leaves every table as it
\* was
C14_NoPartialResult ==
  [][ (last' # last /\ last'.req.route \in Routes /\ last'.status # 200)
        => tables' = tables ]_vars

----------------------------------------------------------------------------
(* Login by username *)

Passwords == {"pw1", "pw2"}

\* the lookup of a user's own username finds that user
C15_OwnRecord ==
  \A x \in users :
    /\ getUserAuthByIdentifier(x.username).found
    /\ getUserAuthByIdentifier(x.username).row.id = x.id

\* the lookup of a user's username never finds another user
C15_NoOtherRecord ==
  \A x \in users :
    getUserAuthByIdentifier(x.username).found =>
      getUserAuthByIdentifier(x.username).row.id = x.id

\* C15: every stored user logs in with the stored username and the password whose
\* hash is stored: authenticateUser finds that user, and the lookup by a username
\* never yields the record of another user.
C15_LoginByUsername ==
  /\ C15_OwnRecord
  /\ C15_NoOtherRecord
  /\ \A x \in users, pw \in Passwords :
       comparePassword(pw, x.passwordHash) =>
         /\ authenticateUser(x.username, pw).ok
         /\ authenticateUser(x.username, pw).found
         /\ authenticateUser(x.username, pw).user.id = x.id

====
